---------------------------- MODULE Spec2Model ----------------------------
(***************************************************************************)
(* A model of Derivatives_project/calc_derivative.py: the payoff and       *)
(* Black-Scholes computations of plot_payoff, the module-level line lists  *)
(* with their two visibility toggles, and main's input loop.               *)
(*                                                                         *)
(* Reals are fixed-point integers: the real x is the integer x * SC.       *)
(* A float that may be NaN or infinite (the results of the Black-Scholes   *)
(* functions) is a record [t |-> "fin" | "nan" | "inf" | "ninf", v |-> n]. *)
(***************************************************************************)
EXTENDS Integers, Sequences, FiniteSets

\* The fixed-point resolution: three decimals.
SC == 10 * 10 * 10

(***************************************************************************)
(* Arithmetic on fixed-point reals.                                        *)
(***************************************************************************)
Abs(x) == IF x < 0 THEN -x ELSE x

\* a * b
Mul(a, b) == (a * b) \div SC

\* a / b, b # 0
Div(a, b) == IF b > 0 THEN (a * SC) \div b ELSE ((-a) * SC) \div (-b)

\* np.maximum(a, 0) pointwise
np_maximum(a, b) == IF a >= b THEN a ELSE b

RECURSIVE ISqrtFrom(_, _)
ISqrtFrom(n, g) ==
    LET h == (g + n \div g) \div 2
    IN  IF h >= g THEN g ELSE ISqrtFrom(n, h)

\* the square root of a fixed-point x >= 0 (Newton's iteration on x * SC)
Sqrt(x) == IF x = 0 THEN 0 ELSE ISqrtFrom(x * SC, x * SC)

RECURSIVE ExpSeries(_, _, _, _)
ExpSeries(x, k, term, acc) ==
    IF k > 12 \/ term = 0 THEN acc
    ELSE LET t == (term * x) \div (k * SC)
         IN  ExpSeries(x, k + 1, t, acc + t)

\* np.exp(x): the Taylor series on |x| <= 1/2, squaring above it
RECURSIVE Exp(_)
Exp(x) ==
    IF x < 0 THEN Div(SC, Exp(-x))
    ELSE IF 2 * x > SC THEN LET h == Exp(x \div 2) IN Mul(h, h)
    ELSE ExpSeries(x, 1, SC, SC)

Ln2 == (693147 * SC) \div 1000000

\* ln on [1, 2): 2 * atanh((x - 1) / (x + 1))
LnUnit(x) ==
    LET y  == Div(x - SC, x + SC)
        y2 == Mul(y, y)
        y3 == Mul(y, y2)
        y5 == Mul(y3, y2)
        y7 == Mul(y5, y2)
    IN  2 * (y + y3 \div 3 + y5 \div 5 + y7 \div 7)

\* the natural logarithm of a fixed-point x > 0
RECURSIVE Ln(_)
Ln(x) ==
    IF x >= 2 * SC THEN Ln2 + Ln(x \div 2)
    ELSE IF x < SC THEN Ln(2 * x) - Ln2
    ELSE LnUnit(x)

\* The standard normal distribution function at 0.0, 0.1, ..., 4.0, in 1/10000.
PhiTable ==
    << 5000, 5398, 5793, 6179, 6554, 6915, 7257, 7580, 7881, 8159,
       8413, 8643, 8849, 9032, 9192, 9332, 9452, 9554, 9641, 9713,
       9772, 9821, 9861, 9893, 9918, 9938, 9953, 9965, 9974, 9981,
       9987, 9990, 9993, 9995, 9997, 9998, 9998, 9999, 9999, 10000,
       10000 >>

\* the distribution function at x >= 0, interpolated linearly in the table
Phi(x) ==
    LET step == SC \div 10
        i    == x \div step
        f    == x % step
    IN  IF i >= Len(PhiTable) - 1 THEN SC
        ELSE LET lo == PhiTable[i + 1]
                 hi == PhiTable[i + 2]
             IN  ((lo * step + (hi - lo) * f) * SC) \div (10000 * step)


(***************************************************************************)
(* Floats that may be NaN or infinite, with numpy's scalar semantics: an   *)
(* invalid operation warns and yields NaN or an infinity, it never raises. *)
(***************************************************************************)
Fin(v) == [t |-> "fin", v |-> v]
NaN == [t |-> "nan", v |-> 0]
PInf == [t |-> "inf", v |-> 0]
NInf == [t |-> "ninf", v |-> 0]

\* numpy.float64 / float: s / k for finite s and k
np_divide(s, k) ==
    IF k # 0 THEN Fin(Div(s, k))
    ELSE IF s > 0 THEN PInf ELSE IF s < 0 THEN NInf ELSE NaN

\* np.log(s / k) for finite s and k.  The quotient of two positive numbers is
\* not rounded to the fixed-point resolution first (0.01 / 100 is not zero in
\* a double): its logarithm is taken as Ln(s) - Ln(k).
np_log_ratio(s, k) ==
    LET q == np_divide(s, k)
    IN  IF q.t = "fin"
        THEN IF s = 0 THEN NInf
             ELSE IF (s > 0) = (k > 0) THEN Fin(Ln(Abs(s)) - Ln(Abs(k)))
             ELSE NaN
        ELSE IF q.t = "inf" THEN PInf ELSE NaN

\* np.sqrt(x) for a finite x
np_sqrt(x) == IF x < 0 THEN NaN ELSE Fin(Sqrt(x))

\* c * x for a finite c and x finite or NaN
XScale(c, x) == IF x.t = "fin" THEN Fin(Mul(c, x.v)) ELSE NaN

\* x + c for a finite c
XAddFin(x, c) == IF x.t = "fin" THEN Fin(x.v + c) ELSE x

\* x / d, d finite (a zero d is +0.0) or NaN
XDiv(x, d) ==
    IF x.t = "nan" \/ d.t = "nan" THEN NaN
    ELSE IF d.v = 0
         THEN IF x.t = "fin"
              THEN IF x.v > 0 THEN PInf ELSE IF x.v < 0 THEN NInf ELSE NaN
              ELSE x
    ELSE IF x.t = "fin" THEN Fin(Div(x.v, d.v))
    ELSE IF d.v > 0 THEN x
    ELSE IF x.t = "inf" THEN NInf ELSE PInf

\* x - d, d finite or NaN
XSub(x, d) ==
    IF x.t = "nan" \/ d.t = "nan" THEN NaN
    ELSE IF x.t = "fin" THEN Fin(x.v - d.v)
    ELSE x

\* -x
XNeg(x) ==
    IF x.t = "fin" THEN Fin(-x.v)
    ELSE IF x.t = "inf" THEN NInf
    ELSE IF x.t = "ninf" THEN PInf
    ELSE NaN

\* scipy.stats.norm.cdf(x): below zero it is 1 - cdf(-x), as in ndtr
norm_cdf(x) ==
    IF x.t = "fin" THEN Fin(IF x.v >= 0 THEN Phi(x.v) ELSE SC - Phi(-x.v))
    ELSE IF x.t = "inf" THEN Fin(SC)
    ELSE IF x.t = "ninf" THEN Fin(0)
    ELSE NaN

(***************************************************************************)
(* The Black-Scholes functions.  S is [np |-> b, v |-> x]: the value x as  *)
(* a numpy.float64 (an element of the grid) when b, as a Python float (the *)
(* S_given that main read) otherwise.  K, r, sigma, T are Python floats.   *)
(* Python's float division raises ZeroDivisionError on K = 0; numpy's      *)
(* gives an infinity or NaN.  The result is [raised, price, d1, d2].       *)
(***************************************************************************)
NpFloat(x) == [np |-> TRUE, v |-> x]
PyFloat(x) == [np |-> FALSE, v |-> x]

Raised(e) == [raised |-> e, price |-> NaN, d1 |-> NaN, d2 |-> NaN]

black_scholes_call_price(S, K, r, sigma, T) ==
    IF ~S.np /\ K = 0 THEN Raised("ZeroDivisionError")
    ELSE LET den == XScale(sigma, np_sqrt(T))
             d1  == XDiv(XAddFin(np_log_ratio(S.v, K),
                                 Mul(r + Mul(SC \div 2, Mul(sigma, sigma)), T)),
                         den)
             d2  == XSub(d1, den)
             call_price == XSub(XScale(S.v, norm_cdf(d1)),
                                XScale(Mul(K, Exp(-Mul(r, T))), norm_cdf(d2)))
         IN  [raised |-> "none", price |-> call_price, d1 |-> d1, d2 |-> d2]

\* black_scholes_put_price with N(d2), N(d1) in place of N(-d2), N(-d1)
black_scholes_put_price_unsigned(S, K, r, sigma, T) ==
    IF ~S.np /\ K = 0 THEN Raised("ZeroDivisionError")
    ELSE LET den == XScale(sigma, np_sqrt(T))
             d1  == XDiv(XAddFin(np_log_ratio(S.v, K),
                                 Mul(r + Mul(SC \div 2, Mul(sigma, sigma)), T)),
                         den)
             d2  == XSub(d1, den)
             put_price == XSub(XScale(Mul(K, Exp(-Mul(r, T))), norm_cdf(d2)),
                               XScale(S.v, norm_cdf(d1)))
         IN  [raised |-> "none", price |-> put_price, d1 |-> d1, d2 |-> d2]

black_scholes_put_price(S, K, r, sigma, T) ==
    IF ~S.np /\ K = 0 THEN Raised("ZeroDivisionError")
    ELSE LET den == XScale(sigma, np_sqrt(T))
             d1  == XDiv(XAddFin(np_log_ratio(S.v, K),
                                 Mul(r + Mul(SC \div 2, Mul(sigma, sigma)), T)),
                         den)
             d2  == XSub(d1, den)
             put_price == XSub(XScale(Mul(K, Exp(-Mul(r, T))), norm_cdf(XNeg(d2))),
                               XScale(S.v, norm_cdf(XNeg(d1))))
         IN  [raised |-> "none", price |-> put_price, d1 |-> d1, d2 |-> d2]


(***************************************************************************)
(* plot_payoff.                                                            *)
(***************************************************************************)
\* The number of grid points (1000 in the source).
GridLen == 3

\* S = np.linspace(0.01, 200, 1000)
GridStart == SC \div 100
GridStop == 200 * SC
S == [j \in 1..GridLen |->
        GridStart + ((j - 1) * (GridStop - GridStart)) \div (GridLen - 1)]

\* A position is [type, quantity, strike]; a type outside these is invalid.
ValidTypes == {"stock", "call", "put", "bond"}

\* payoff with the put branch written as the call branch
payoff_put_as_call(position, grid, r, T) ==
    LET type_    == position.type
        quantity == position.quantity
        strike   == position.strike
    IN  [j \in 1..GridLen |->
           IF type_ = "stock" THEN Mul(quantity, grid[j])
           ELSE IF type_ \in {"call", "put"}
                THEN Mul(quantity, np_maximum(grid[j] - strike, 0))
           ELSE Mul(Mul(Mul(quantity, SC), strike), Exp(-Mul(r, T)))]

\* One position's payoff over the grid (the branches of lines 69-76); grid is
\* the array S as the loop holds it.
payoff(position, grid, r, T) ==
    LET type_    == position.type
        quantity == position.quantity
        strike   == position.strike
    IN  [j \in 1..GridLen |->
           IF type_ = "stock" THEN Mul(quantity, grid[j])
           ELSE IF type_ = "call" THEN Mul(quantity, np_maximum(grid[j] - strike, 0))
           ELSE IF type_ = "put" THEN Mul(quantity, np_maximum(strike - grid[j], 0))
           ELSE Mul(Mul(Mul(quantity, SC), strike), Exp(-Mul(r, T)))]

\* total_payoff = np.zeros_like(S)
zeros_like_S == [j \in 1..GridLen |-> 0]

\* total_payoff += payoff
AddPayoff(total_payoff, p) == [j \in 1..GridLen |-> total_payoff[j] + p[j]]

\* Accumulate with total_payoff = payoff in place of total_payoff += payoff
Accumulate_assign(st, p) ==
    [st EXCEPT !.total_payoff = p, !.new_lines = Append(@, p)]

\* total_payoff += payoff; plot the payoff; new_lines.append(line)
Accumulate(st, p) ==
    [st EXCEPT !.total_payoff = AddPayoff(@, p), !.new_lines = Append(@, p)]

\* PositionStep without the final else: an invalid type is passed over
PositionStep_no_raise(st, position, r, T) ==
    IF position.type \notin ValidTypes THEN st
    ELSE [st EXCEPT !.total_payoff = AddPayoff(@, payoff(position, st.S, r, T)),
                    !.new_lines = Append(@, payoff(position, st.S, r, T))]

\* One iteration of the position loop on the loop's state st =
\* [raised, S, total_payoff, new_lines], new_lines being the payoffs plotted so
\* far, in order, and S the grid.
PositionStep(st, position, r, T) ==
    IF position.type \notin ValidTypes THEN [st EXCEPT !.raised = "ValueError"]
    ELSE Accumulate(st, payoff(position, st.S, r, T))

\* The position loop from position i on; an exception ends it.
RECURSIVE PositionLoop(_, _, _, _, _)
PositionLoop(stock_positions, i, r, T, st) ==
    IF i > Len(stock_positions) \/ st.raised # "none" THEN st
    ELSE PositionLoop(stock_positions, i + 1, r, T,
                      PositionStep(st, stock_positions[i], r, T))

\* f"{x:.2f}": two decimals; nan and inf print as such
Fmt2(x) ==
    IF x.t = "fin" THEN Fin(((x.v * 100 + SC \div 2) \div SC) * (SC \div 100))
    ELSE x

\* bs_price with the call function for every leg
bs_price_call_only(type_, s, strike, r, sigma, T) ==
    black_scholes_call_price(s, strike, r, sigma, T)

\* The Black-Scholes function of an option leg.
bs_price(type_, s, strike, r, sigma, T) ==
    IF type_ = "call" THEN black_scholes_call_price(s, strike, r, sigma, T)
    ELSE black_scholes_put_price(s, strike, r, sigma, T)

\* bs_call_prices / bs_put_prices: the price over the grid
bs_prices(type_, grid, strike, r, sigma, T) ==
    [j \in 1..GridLen |->
        bs_price(type_, NpFloat(grid[j]), strike, r, sigma, T).price]

\* formula_str: what is substituted into the text
formula_str(type_, S_0, strike, r, sigma, T, bs) ==
    [head |-> IF type_ = "call" THEN "Call" ELSE "Put",
     S |-> S_0, K |-> strike, r |-> r, sigma |-> sigma, T |-> T,
     d1 |-> Fmt2(bs.d1), d2 |-> Fmt2(bs.d2), price |-> Fmt2(bs.price)]

\* An option leg's curve is plotted and appended to bs_curve_lines
PlotCurve(acc, curve) == [acc EXCEPT !.curves = Append(@, curve)]

\* The point price bs of leg i at S_0: an exception of the Black-Scholes
\* function ends plot_bs_prices, otherwise the point is plotted and the
\* formula string appended
PlotPoint(acc, bs, i, type_, S_0, strike, r, sigma, T) ==
    IF bs.raised # "none" THEN [acc EXCEPT !.raised = bs.raised]
    ELSE [acc EXCEPT
            !.points = Append(@, [pos |-> i, S |-> S_0, price |-> bs.price,
                                  d1 |-> bs.d1, d2 |-> bs.d2]),
            !.formulas = Append(@, formula_str(type_, S_0, strike, r, sigma, T, bs))]

\* One call or put leg of plot_bs_prices: the curve first, then the point.
PlotLeg(acc, i, position, grid, S_0, r, sigma, T) ==
    PlotPoint(PlotCurve(acc, [pos |-> i, type |-> position.type,
                              K |-> position.strike,
                              prices |-> bs_prices(position.type, grid,
                                                   position.strike, r, sigma, T)]),
              bs_price(position.type, PyFloat(S_0), position.strike, r, sigma, T),
              i, position.type, S_0, position.strike, r, sigma, T)

\* plot_bs_prices(S_0) from position i on.  acc is [raised, curves, points,
\* formulas]: the curves and points plotted and the strings appended so far.
RECURSIVE plot_bs_prices(_, _, _, _, _, _, _, _)
plot_bs_prices(stock_positions, i, grid, S_0, r, sigma, T, acc) ==
    IF i > Len(stock_positions) \/ acc.raised # "none" THEN acc
    ELSE plot_bs_prices(stock_positions, i + 1, grid, S_0, r, sigma, T,
            IF stock_positions[i].type \in {"call", "put"}
            THEN PlotLeg(acc, i, stock_positions[i], grid, S_0, r, sigma, T)
            ELSE acc)

(***************************************************************************)
(* The state.                                                              *)
(*   lines, bs_curve_lines  the module-level lists.  A line object is      *)
(*        [call, pos, visible]: the plot_payoff call that created it, the  *)
(*        position it draws (0: the total payoff) and its visibility.      *)
(*   fig  what the last plot_payoff call drew before it returned or        *)
(*        raised: its arguments, the grid, the payoff lines, the total     *)
(*        line (<<>> when not drawn), the price curves, the price points   *)
(*        and the text block (<<>> when not drawn).                        *)
(*   ncalls  the number of plot_payoff calls made.                         *)
(*   seen  the number, arguments and drawing of one earlier call, kept to  *)
(*        compare a later call with it.                                    *)
(*   pc, stock_positions, r, sigma, T, S_given  the caller: its position   *)
(*        and the values it passes to plot_payoff (main's locals).         *)
(***************************************************************************)
VARIABLES lines, bs_curve_lines, fig, ncalls, seen,
          pc, stock_positions, r, sigma, T, S_given

vars == <<lines, bs_curve_lines, fig, ncalls, seen,
          pc, stock_positions, r, sigma, T, S_given>>

globals == <<lines, bs_curve_lines, fig, ncalls, seen>>
locals == <<stock_positions, r, sigma, T, S_given>>

Args(sp, rr, sg, tt, s0) ==
    [stock_positions |-> sp, r |-> rr, sigma |-> sg, T |-> tt, S_given |-> s0]

NoFig ==
    [raised |-> "nocall", args |-> Args(<<>>, 0, 0, 0, 0), S |-> S,
     payoffs |-> <<>>,
     total |-> <<>>, curves |-> <<>>, points |-> <<>>, text |-> <<>>]

\* general_formulas, the first entry of substituted_formulas
general_formulas ==
    [head |-> "General", S |-> 0, K |-> 0, r |-> 0, sigma |-> 0, T |-> 0,
     d1 |-> Fin(0), d2 |-> Fin(0), price |-> Fin(0)]

\* new_lines starting from what the previous call drew
new_lines_kept == fig.payoffs

\* new_lines = []
new_lines_init == <<>>

\* The line objects of one call: one per position, then the total line.
NewLineObjects(id, n) ==
    [k \in 1..(n + 1) |->
        [call |-> id, pos |-> IF k <= n THEN k ELSE 0, visible |-> TRUE]]

\* lines.clear(); lines.extend(new_lines)
lines_update(old, new_lines) == new_lines

\* bs_curve_lines.append(curve) for each curve plotted by call id
bs_curve_lines_update(old, id, curves) ==
    old \o [k \in 1..Len(curves) |->
               [call |-> id, pos |-> curves[k].pos, visible |-> TRUE]]

\* What the call has drawn when it ends with the position loop's state loop
\* and plot_bs_prices' state acc; the text block is drawn last.
Drawn(a, loop, acc) ==
    [raised |-> IF loop.raised # "none" THEN loop.raised ELSE acc.raised,
     args |-> a,
     S |-> loop.S,
     payoffs |-> loop.new_lines,
     total |-> IF loop.raised # "none" THEN <<>> ELSE loop.total_payoff,
     curves |-> acc.curves,
     points |-> acc.points,
     text |-> IF loop.raised # "none" \/ acc.raised # "none" THEN <<>>
              ELSE acc.formulas]

\* The start of plot_bs_prices: substituted_formulas holds general_formulas
BsStart ==
    [raised |-> "none", curves |-> <<>>, points |-> <<>>,
     formulas |-> <<general_formulas>>]

\* After the position loop: an exception in it ends the call; otherwise
\* plot_bs_prices(S_given) runs.
AfterLoop(loop, sp, rr, sg, tt, s0) ==
    IF loop.raised # "none" THEN [BsStart EXCEPT !.formulas = <<>>]
    ELSE plot_bs_prices(sp, 1, loop.S, s0, rr, sg, tt, BsStart)

\* The module-level lists after the call id: every curve plotted was appended
\* to bs_curve_lines; lines is replaced only when nothing was raised.
ListsAfter(f, n, ls, bs, id) ==
    [fig |-> f,
     lines |-> IF f.raised = "none" THEN lines_update(ls, NewLineObjects(id, n))
               ELSE ls,
     bs_curve_lines |-> bs_curve_lines_update(bs, id, f.curves)]

LoopStart ==
    [raised |-> "none", S |-> S, total_payoff |-> zeros_like_S,
     new_lines |-> new_lines_init]

WithLoop(loop, sp, rr, sg, tt, s0, ls, bs, id) ==
    ListsAfter(Drawn(Args(sp, rr, sg, tt, s0), loop,
                     AfterLoop(loop, sp, rr, sg, tt, s0)),
               Len(sp), ls, bs, id)

\* plot_payoff up to plt.show(): [fig, lines, bs_curve_lines] after the call
\* id, from the module-level lists ls and bs before it.
plot_payoff(sp, rr, sg, tt, s0, ls, bs, id) ==
    WithLoop(PositionLoop(sp, 1, rr, tt, LoopStart), sp, rr, sg, tt, s0, ls, bs, id)

\* hide_lines over lines in place of lines[:-1]
hide_lines_all(ls) ==
    LET is_any_visible == \E k \in 1..Len(ls) : ls[k].visible
    IN  [k \in 1..Len(ls) |-> [ls[k] EXCEPT !.visible = ~is_any_visible]]

\* hide_lines: all lines but the last get the visibility not is_any_visible
hide_lines(ls) ==
    LET is_any_visible == \E k \in 1..(Len(ls) - 1) : ls[k].visible
    IN  [k \in 1..Len(ls) |->
            IF k < Len(ls) THEN [ls[k] EXCEPT !.visible = ~is_any_visible]
            ELSE ls[k]]

\* hide_bs_curves: all curves get the visibility not is_any_visible
hide_bs_curves(bs) ==
    LET is_any_visible == \E k \in 1..Len(bs) : bs[k].visible
    IN  [k \in 1..Len(bs) |-> [bs[k] EXCEPT !.visible = ~is_any_visible]]

(***************************************************************************)
(* The steps shared by the specifications.                                 *)
(***************************************************************************)
\* The number of plot_payoff calls in one run.
MaxCalls == 3

Snapshot(id, f) == [call |-> id, args |-> f.args, fig |-> f]
NoSnapshot == Snapshot(0, NoFig)

Returned(res) ==
    /\ fig' = res.fig
    /\ lines' = res.lines
    /\ bs_curve_lines' = res.bs_curve_lines

\* One plot_payoff call, up to plt.show() or to the exception.
PlotPayoff(sp, rr, sg, tt, s0) ==
    /\ ncalls < MaxCalls
    /\ Returned(plot_payoff(sp, rr, sg, tt, s0, lines, bs_curve_lines, ncalls + 1))
    /\ ncalls' = ncalls + 1

\* A click on 'Toggle Lines'
HideLines ==
    /\ lines' = hide_lines(lines)
    /\ UNCHANGED <<bs_curve_lines, fig, ncalls, seen>>

\* A click on 'Toggle BS Curves'
HideBsCurves ==
    /\ bs_curve_lines' = hide_bs_curves(bs_curve_lines)
    /\ UNCHANGED <<lines, fig, ncalls, seen>>

InitGlobals ==
    /\ lines = <<>>
    /\ bs_curve_lines = <<>>
    /\ fig = NoFig
    /\ ncalls = 0
    /\ seen = NoSnapshot

Position(t, q, k) == [type |-> t, quantity |-> q, strike |-> k]


\* All lists of at most n elements of P
ListsUpTo(P, n) == UNION {[1..k -> P] : k \in 0..n}

(***************************************************************************)
(* Spec: the module's functions called by any caller, in any order.        *)
(***************************************************************************)
SessionPortfolios ==
    { <<>>,
      <<Position("call", SC, 100 * SC)>>,
      <<Position("stock", 2 * SC, 0), Position("put", -SC, 100 * SC)>>,
      <<Position("stock", SC, 0), Position("future", SC, 0),
        Position("call", SC, 100 * SC)>>,
      <<Position("future", SC, 0)>>,
      <<Position("call", SC, 100 * SC), Position("bond", SC, 100 * SC),
        Position("put", SC, 50 * SC)>> }

SessionSpots == {100 * SC, 150 * SC}

SessionCall ==
    \E sp \in SessionPortfolios, s0 \in SessionSpots :
        /\ PlotPayoff(sp, SC \div 20, SC \div 5, SC, s0)
        /\ seen' \in {seen, Snapshot(ncalls, fig)}
        /\ stock_positions' = sp
        /\ r' = SC \div 20
        /\ sigma' = SC \div 5
        /\ T' = SC
        /\ S_given' = s0
        /\ pc' = pc

SessionHideLines == HideLines /\ UNCHANGED <<pc, locals>>

SessionHideBsCurves == HideBsCurves /\ UNCHANGED <<pc, locals>>

Init ==
    /\ InitGlobals
    /\ pc = "caller"
    /\ stock_positions = <<>>
    /\ r = 0
    /\ sigma = 0
    /\ T = 0
    /\ S_given = 0

Next == SessionCall \/ SessionHideLines \/ SessionHideBsCurves

Spec == Init /\ [][Next]_vars

(***************************************************************************)
(* SpecEval: one plot_payoff call on arguments drawn from bounded sets.    *)
(***************************************************************************)
\* The longest position list drawn.
MaxPos == 2

Quantities == {-SC, 2 * SC}
Strikes == {0, 50 * SC, 100 * SC}
\* <<r, sigma, T>>: the usual market, a zero rate, a zero volatility, a zero
\* maturity, and a zero rate with a zero volatility
Markets ==
    { <<SC \div 20, SC \div 5, SC>>,
      <<0, SC \div 5, SC>>,
      <<SC \div 20, 0, SC>>,
      <<SC \div 20, SC \div 5, 0>>,
      <<0, 0, SC>> }
Spots == {0, 100 * SC}

EvalPositions ==
    {Position("stock", q, 0) : q \in Quantities}
        \cup {Position("future", SC, 0)}
        \cup {Position(t, q, k) : t \in {"call", "put", "bond"},
                                  q \in Quantities, k \in Strikes}

InitEval ==
    /\ InitGlobals
    /\ pc = "call"
    /\ stock_positions \in ListsUpTo(EvalPositions, MaxPos)
    /\ \E market \in Markets :
          /\ r = market[1]
          /\ sigma = market[2]
          /\ T = market[3]
    /\ S_given \in Spots

EvalCall ==
    /\ pc = "call"
    /\ PlotPayoff(stock_positions, r, sigma, T, S_given)
    /\ pc' = "returned"
    /\ UNCHANGED <<seen, locals>>

NextEval == EvalCall

SpecEval == InitEval /\ [][NextEval]_vars


(***************************************************************************)
(* SpecMain: the program, main's command loop.  pc is main's position:     *)
(* "params" (the prompts for r, sigma, T), "instruments" (the instrument   *)
(* loop), "spot" (the prompt for S), "show" (inside plt.show(), where the  *)
(* two buttons can be clicked), "another", "keep", "strikes" (the prompts  *)
(* after a plot), "exit" (main returned) and "crashed" (an exception left  *)
(* main).                                                                  *)
(***************************************************************************)
\* for i in range(5)
MaxInstruments == 5

\* What the user types (position types are lower-cased by main).
MainTypes == {"stock", "call", "future"}
MainQuantities == {SC}
MainStrikes == {100 * SC}
MainNewStrikes == {50 * SC}
MainRates == {SC \div 20}
MainSigmas == {SC \div 5}
MainMaturities == {SC}
MainSpots == {100 * SC}

InitMain ==
    /\ InitGlobals
    /\ pc = "params"
    /\ stock_positions = <<>>
    /\ r = 0
    /\ sigma = 0
    /\ T = 0
    /\ S_given = 0

\* lines 178-180
EnterParams ==
    /\ pc = "params"
    /\ r' \in MainRates
    /\ sigma' \in MainSigmas
    /\ T' \in MainMaturities
    /\ pc' = "instruments"
    /\ UNCHANGED <<globals, stock_positions, S_given>>

\* lines 185-192: one instrument; the loop ends after the fifth
EnterInstrument ==
    /\ pc = "instruments"
    /\ Len(stock_positions) < MaxInstruments
    /\ \E position_type \in MainTypes, quantity \in MainQuantities,
          k \in MainStrikes :
          stock_positions' = Append(stock_positions,
              Position(position_type, quantity,
                       IF position_type \in {"call", "put", "bond"} THEN k ELSE 0))
    /\ pc' = IF Len(stock_positions) + 1 = MaxInstruments THEN "spot"
             ELSE "instruments"
    /\ UNCHANGED <<globals, r, sigma, T, S_given>>

\* lines 186-187: 'done'
EnterDone ==
    /\ pc = "instruments"
    /\ pc' = "spot"
    /\ UNCHANGED <<globals, locals>>

\* lines 195-196: S is read and plot_payoff called; an exception leaves main
EnterSpot ==
    /\ pc = "spot"
    /\ S_given' \in MainSpots
    /\ PlotPayoff(stock_positions, r, sigma, T, S_given')
    /\ pc' = IF fig'.raised = "none" THEN "show" ELSE "crashed"
    /\ UNCHANGED <<seen, stock_positions, r, sigma, T>>

MainHideLines == pc = "show" /\ HideLines /\ UNCHANGED <<pc, locals>>

MainHideBsCurves == pc = "show" /\ HideBsCurves /\ UNCHANGED <<pc, locals>>

\* line 174: the window is closed and plt.show() returns
CloseFigure ==
    /\ pc = "show"
    /\ pc' = "another"
    /\ UNCHANGED <<globals, locals>>

\* lines 198-201
AnswerAnother ==
    /\ pc = "another"
    /\ \E another \in {"y", "n"} : pc' = IF another = "y" THEN "keep" ELSE "exit"
    /\ UNCHANGED <<globals, locals>>

\* lines 203-207
AnswerKeep ==
    /\ pc = "keep"
    /\ \E keep_values \in {"y", "n"} :
          IF keep_values = "y" THEN UNCHANGED <<r, sigma, T>>
          ELSE /\ r' \in MainRates
               /\ sigma' \in MainSigmas
               /\ T' \in MainMaturities
    /\ pc' = "strikes"
    /\ UNCHANGED <<globals, stock_positions, S_given>>

\* An answer to a strike prompt: <<FALSE, 0>> is the empty line.
StrikeAnswers == {<<FALSE, 0>>} \cup {<<TRUE, k>> : k \in MainNewStrikes}

\* lines 210-214: the strike prompts, one per call, put and bond
EditStrikes ==
    /\ pc = "strikes"
    /\ \E new_strike \in [1..Len(stock_positions) -> StrikeAnswers] :
          stock_positions' =
              [i \in 1..Len(stock_positions) |->
                  IF /\ stock_positions[i].type \in {"call", "put", "bond"}
                     /\ new_strike[i][1]
                  THEN [stock_positions[i] EXCEPT !.strike = new_strike[i][2]]
                  ELSE stock_positions[i]]
    /\ pc' = "spot"
    /\ UNCHANGED <<globals, r, sigma, T, S_given>>

NextMain ==
    \/ EnterParams
    \/ EnterInstrument
    \/ EnterDone
    \/ EnterSpot
    \/ MainHideLines
    \/ MainHideBsCurves
    \/ CloseFigure
    \/ AnswerAnother
    \/ AnswerKeep
    \/ EditStrikes

SpecMain == InitMain /\ [][NextMain]_vars


(***************************************************************************)
(* The properties.                                                         *)
(***************************************************************************)
Called == fig.raised # "nocall"

\* The last call finished its position loop.
LoopDone == fig.raised \in {"none", "ZeroDivisionError"}

FigPositions == fig.args.stock_positions

OptionLegs(sp) == {i \in 1..Len(sp) : sp[i].type \in {"call", "put"}}

\* A position's payoff at the price s, as the specification states it.
ExpectedPayoff(p, s, rr, tt) ==
    IF p.type = "stock" THEN Mul(p.quantity, s)
    ELSE IF p.type = "call"
         THEN Mul(p.quantity, IF s - p.strike > 0 THEN s - p.strike ELSE 0)
    ELSE IF p.type = "put"
         THEN Mul(p.quantity, IF p.strike - s > 0 THEN p.strike - s ELSE 0)
    ELSE Mul(Mul(p.quantity, p.strike), Exp(-Mul(rr, tt)))

\* C1: every payoff line that plot_payoff draws is the payoff of its
\* position's kind at every grid price: quantity*S for a stock,
\* quantity*max(S-strike,0) for a call, quantity*max(strike-S,0) for a put,
\* and for a bond the one value quantity*strike*exp(-r*T) at every grid point.
C1_PayoffByKind ==
    Called =>
        \A i \in 1..Len(fig.payoffs) : \A j \in 1..GridLen :
            /\ FigPositions[i].type \in {"stock", "call", "put", "bond"}
            /\ fig.payoffs[i][j] =
                   ExpectedPayoff(FigPositions[i], S[j], fig.args.r, fig.args.T)
            /\ FigPositions[i].type = "bond" =>
                   fig.payoffs[i][j] = fig.payoffs[i][1]

\* A short put and a long bond at a positive rate, both drawn.
C1_Witness ==
    /\ fig.raised = "none"
    /\ fig.args.r > 0
    /\ fig.args.T > 0
    /\ \E i, k \in 1..Len(fig.payoffs) :
          /\ FigPositions[i].type = "put"
          /\ FigPositions[i].quantity < 0
          /\ fig.payoffs[i][1] < 0
          /\ fig.payoffs[i][GridLen] = 0
          /\ FigPositions[k].type = "bond"
          /\ fig.payoffs[k][1] > 0

RECURSIVE SumAt(_, _, _)
SumAt(ps, n, j) == IF n = 0 THEN 0 ELSE SumAt(ps, n - 1, j) + ps[n][j]

\* C2: when the position loop has finished, the total payoff has the grid's
\* length and is at every grid point the sum of all the positions' payoffs
\* (the zero vector for an empty list), and the grid and the payoffs drawn
\* are what they were when computed.
C2_TotalIsSum ==
    LoopDone =>
        /\ Len(fig.total) = GridLen
        /\ Len(fig.payoffs) = Len(FigPositions)
        /\ \A j \in 1..GridLen :
              fig.total[j] = SumAt(fig.payoffs, Len(fig.payoffs), j)
        /\ FigPositions = <<>> => \A j \in 1..GridLen : fig.total[j] = 0
        /\ fig.S = [j \in 1..GridLen |->
                       GridStart + ((j - 1) * (GridStop - GridStart)) \div (GridLen - 1)]
        /\ \A i \in 1..Len(fig.payoffs) : \A j \in 1..GridLen :
              fig.payoffs[i][j] =
                  ExpectedPayoff(FigPositions[i], fig.S[j], fig.args.r, fig.args.T)

\* Two positions with payoffs that differ from the total.
C2_Witness ==
    /\ LoopDone
    /\ Len(fig.payoffs) = 2
    /\ fig.payoffs[1][GridLen] # 0
    /\ fig.payoffs[2][GridLen] # 0
    /\ fig.total[GridLen] # fig.payoffs[2][GridLen]
    /\ fig.total[GridLen] # 0

InvalidAt(sp) == {i \in 1..Len(sp) : sp[i].type \notin {"stock", "call", "put", "bond"}}

\* C3: a plot_payoff call on a list with a position of an invalid kind raises
\* the invalid-kind error when the loop reaches the first such position
\* (only the payoffs before it are drawn), draws no total payoff, computes
\* no Black-Scholes price, shows no text, and leaves lines and
\* bs_curve_lines as they were before the call.
C3_InvalidKindAborts ==
    [][(ncalls' = ncalls + 1 /\ InvalidAt(fig'.args.stock_positions) # {}) =>
          /\ fig'.raised = "ValueError"
          /\ \A i \in InvalidAt(fig'.args.stock_positions) : Len(fig'.payoffs) < i
          /\ Len(fig'.payoffs) + 1 \in InvalidAt(fig'.args.stock_positions)
          /\ fig'.total = <<>>
          /\ fig'.curves = <<>>
          /\ fig'.points = <<>>
          /\ fig'.text = <<>>
          /\ lines' = lines
          /\ bs_curve_lines' = bs_curve_lines]_vars

\* The error raised at a position after the first, with lines and curves of
\* an earlier call in the lists.
C3_Witness ==
    /\ fig.raised = "ValueError"
    /\ Len(fig.payoffs) >= 1
    /\ Len(fig.payoffs) < Len(FigPositions) - 1
    /\ lines # <<>>
    /\ bs_curve_lines # <<>>

IsNumber(x) == x.t = "fin"

\* C4: whenever sigma = 0, T = 0, S <= 0 or K <= 0 for an option leg, the
\* call surfaces an error and no price drawn is NaN or infinite.
C4_DomainErrorSurfaced ==
    (/\ LoopDone
     /\ \E i \in OptionLegs(FigPositions) :
           \/ fig.args.sigma = 0
           \/ fig.args.T = 0
           \/ fig.args.S_given <= 0
           \/ FigPositions[i].strike <= 0)
    => /\ fig.raised # "none"
       /\ \A c \in 1..Len(fig.curves) : \A j \in 1..GridLen :
              IsNumber(fig.curves[c].prices[j])
       /\ \A c \in 1..Len(fig.points) : IsNumber(fig.points[c].price)

\* C5: the position list main hands to plot_payoff has at most 5 positions,
\* each of a kind among stock, call, put, bond, and each call, put and bond
\* with a strike the user entered.
C5_InputsTypeChecked ==
    Called =>
        /\ Len(FigPositions) <= 5
        /\ \A i \in 1..Len(FigPositions) :
              /\ FigPositions[i].type \in {"stock", "call", "put", "bond"}
              /\ FigPositions[i].type \in {"call", "put", "bond"} =>
                     FigPositions[i].strike \in MainStrikes \cup MainNewStrikes

\* S - K*exp(-r*T)
Forward(s, k, rr, tt) == s - Mul(k, Exp(-Mul(rr, tt)))

OptionSeq(sp) ==
    [k \in 1..Cardinality(OptionLegs(sp)) |->
        CHOOSE i \in OptionLegs(sp) :
            Cardinality({m \in OptionLegs(sp) : m < i}) = k - 1]

\* The price function of a leg's kind, as the specification names it.
ExpectedPrice(p, s, rr, sg, tt) ==
    IF p.type = "call" THEN black_scholes_call_price(s, p.strike, rr, sg, tt)
    ELSE black_scholes_put_price(s, p.strike, rr, sg, tt)

C8_OnlyLastCallObjects ==
    fig.raised = "none" =>
        /\ Len(lines) = Len(FigPositions) + 1
        /\ \A k \in 1..Len(lines) :
              /\ lines[k].call = ncalls
              /\ lines[k].pos = IF k <= Len(FigPositions) THEN k ELSE 0
        /\ Len(bs_curve_lines) = Cardinality(OptionLegs(FigPositions))
        /\ \A k \in 1..Len(bs_curve_lines) :
              /\ bs_curve_lines[k].call = ncalls
              /\ bs_curve_lines[k].pos \in OptionLegs(FigPositions)

C10_HideLinesKeepsTotal ==
    [][HideLines =>
          /\ Len(lines') = Len(lines)
          /\ lines = <<>> => lines' = <<>>
          /\ lines # <<>> => lines'[Len(lines)] = lines[Len(lines)]
          /\ \A k \in 1..(Len(lines) - 1) :
                /\ lines'[k].visible = ~(\E m \in 1..(Len(lines) - 1) : lines[m].visible)
                /\ lines'[k].call = lines[k].call
                /\ lines'[k].pos = lines[k].pos
          /\ hide_lines(lines') = lines]_vars

\* Three position lines hidden beside a visible total line.
C10_Witness ==
    /\ Len(lines) = 4
    /\ \A k \in 1..3 : ~lines[k].visible
    /\ lines[4].visible
    /\ lines[4].pos = 0

=============================================================================
